---- MODULE Spec2Model ----
(***************************************************************************)
(* A model of the block-based file system core: the inode layer (inode.c), *)
(* the directory layer (directory.c) and the operation layer (storage.c).  *)
(*                                                                         *)
(* The image is one flat array of cells.  The C code addresses the same    *)
(* memory as bytes (file data), as ints (indirect blocks) and as dirent_t  *)
(* records (directories); the model keeps that: a cell holds one natural   *)
(* number and each view decodes it.  The layout is scaled down: one cell   *)
(* is one byte, one int and one directory entry, and a block holds         *)
(* BLOCK_SIZE cells.  Block 0 holds the two bitmaps (cell 0: the block     *)
(* bitmap as a word, cell 1: the inode bitmap as a word); blocks 1..3 are  *)
(* the blocks storage_init reserves, where the inode table lives; the      *)
(* inode table itself is the variable inodes.                              *)
(***************************************************************************)
EXTENDS Integers, Sequences, FiniteSets, TLC

\* ------------------------------------------------------------------ layout
BLOCK_SIZE == 2          \* cells per block (blocks.h, scaled from 4096)
BLOCK_COUNT == 12        \* blocks in the image, and bits per bitmap (scaled from 256)
RESERVED_BLOCKS == 3     \* storage_init: blocks 1..3 are allocated up front
NUM_ENTRIES == 2         \* directory_lookup's fixed scan bound (64 = 4096/64, scaled)
ENOENT == 2
EEXIST == 17
FILE_MODE == 1           \* a regular-file mode given to mknod
DIR_MODE == 2            \* 040755, the root's mode
DIRENT_SIZE == 1         \* sizeof(dirent_t), in cells (scaled from 64)

\* ------------------------------------------------------------------ bounds
MaxName == 2             \* names are 1..MaxName; 0 is the empty string
MaxOps == 5              \* operations per run on files' data
MaxLinkOps == 5          \* operations per run on names
MaxFullOps == 3          \* operations per run from the image with no free inode
MaxSize == 5             \* largest size given to truncate
MaxLen == 5              \* longest buffer given to write and read
MaxOffset == 3           \* largest offset given to write
MaxOffsetOps == 3        \* operations per run on files at offsets

Names == 1..MaxName
MemCells == BLOCK_COUNT * BLOCK_SIZE
DataStart == (RESERVED_BLOCKS + 1) * BLOCK_SIZE   \* first cell after block 3
Inums == 0..(BLOCK_COUNT - 1)

VARIABLES
    bbm,      \* block bitmap: the set of block numbers whose bit is set
    ibm,      \* inode bitmap: the set of inode numbers whose bit is set
    inodes,   \* the inode table: inum -> inode_t
    mem,      \* the cells of blocks 4.. (cells below DataStart are not kept here)
    fault,    \* "none", or the access outside the modelled image that ended the run
    last,     \* the last operation run: its name, arguments and result
    nops      \* operations run so far

vars == <<bbm, ibm, inodes, mem, fault, last, nops>>

\* The file-system state as one record, as the C functions see it.
St == [bbm |-> bbm, ibm |-> ibm, inodes |-> inodes, mem |-> mem,
       fault |-> fault]

Min(a, b) == IF a < b THEN a ELSE b

\* e evaluated once and handed to F: a local variable of the C code.
Let(e, F(_)) == CHOOSE r \in {F(v) : v \in {e}} : TRUE

Ok(S) == S.fault = "none"

\* ------------------------------------------------------------------ bitmaps
\* bitmap.h (not in src/): bit i of the bitmap; the bitmap read as one word.
RECURSIVE WordFrom(_, _)
WordFrom(S, i) ==
    IF i >= BLOCK_COUNT THEN 0
    ELSE (IF i \in S THEN 2^i ELSE 0) + WordFrom(S, i + 1)

BitmapWord(S) == WordFrom(S, 0)

BitsOfWord(v) == {i \in 0..(BLOCK_COUNT - 1) : (v \div (2^i)) % 2 = 1}

\* One cell holds as many bits as a bitmap has.
WORD_BITS == BLOCK_COUNT

\* bitmap_put(.., 0) on one cell: the cell's value with bit b cleared.
ClearBit(v, b) == IF (v \div (2^b)) % 2 = 1 THEN v - 2^b ELSE v

\* ------------------------------------------------------------------ memory
\* blocks_get_block(bnum) is blocks_base + bnum * BLOCK_SIZE, with no check.
blocks_get_block(bnum) == bnum * BLOCK_SIZE

InImage(a) == a >= 0 /\ a < MemCells
InTable(a) == a >= 2 /\ a < DataStart

\* What an access to cell a does to the run: outside the image the process
\* dies; inside the inode table the cell's content is not modelled.
Touch(S, a) ==
    IF ~Ok(S) THEN S
    ELSE IF ~InImage(a) THEN [S EXCEPT !.fault = "segv"]
    ELSE IF InTable(a) THEN [S EXCEPT !.fault = "table"]
    ELSE S

Peek(S, a) ==
    IF ~InImage(a) \/ InTable(a) THEN 0
    ELSE IF a = 0 THEN BitmapWord(S.bbm)
    ELSE IF a = 1 THEN BitmapWord(S.ibm)
    ELSE S.mem[a]

Poke(S, a, v) ==
    IF ~Ok(S) \/ ~InImage(a) \/ InTable(a) THEN Touch(S, a)
    ELSE IF a = 0 THEN [S EXCEPT !.bbm = BitsOfWord(v)]
    ELSE IF a = 1 THEN [S EXCEPT !.ibm = BitsOfWord(v)]
    ELSE [S EXCEPT !.mem[a] = v]

\* ------------------------------------------------------------------ block store
\* blocks.c (not in src/): first clear bit from 1 up, or -1.
alloc_block_num(S) ==
    LET free == {i \in 1..(BLOCK_COUNT - 1) : i \notin S.bbm} IN
    IF free = {} THEN -1 ELSE CHOOSE i \in free : \A j \in free : i <= j

alloc_block(S) ==
    Let(alloc_block_num(S), LAMBDA n :
        [st |-> IF n = -1 THEN S ELSE [S EXCEPT !.bbm = @ \cup {n}], ret |-> n])

\* free_block(bnum) is bitmap_put(blocks bitmap, bnum, 0), with no range check:
\* bit bnum counted from the first bit of block 0, wherever in the image (or
\* outside it) that bit lies.
free_block(S, bnum) ==
    Poke(S, bnum \div WORD_BITS, ClearBit(Peek(S, bnum \div WORD_BITS), bnum % WORD_BITS))

\* ------------------------------------------------------------------ inode layer
\* get_inode(inum) is &table[inum], with no check: an index outside the table
\* is an access the model does not follow.
get_inode(S, inum) ==
    IF ~Ok(S) \/ inum \in Inums THEN S ELSE [S EXCEPT !.fault = "inode"]

alloc_inode_num(S) ==
    LET free == {i \in Inums : i \notin S.ibm} IN
    IF free = {} THEN -1 ELSE CHOOSE i \in free : \A j \in free : i <= j

\* alloc_inode: first clear bit, set it, refs = 1, mode = 0, size = 0,
\* pointers[0] = alloc_block(); block and pointers[1] keep what they held.
\* With no clear bit the record written is the one at index -1.
alloc_inode(S) ==
    Let(alloc_inode_num(S), LAMBDA n :
        IF n = -1 THEN [st |-> alloc_block(get_inode(S, n)).st, ret |-> n]
        ELSE Let(alloc_block([S EXCEPT !.ibm = @ \cup {n}]), LAMBDA A :
                 [st |-> [A.st EXCEPT !.inodes[n].refs = 1,
                                      !.inodes[n].mode = 0,
                                      !.inodes[n].size = 0,
                                      !.inodes[n].pointers[0] = A.ret],
                  ret |-> n]))

\* grow_inode's loop body for a direct extent: pointers[i] = alloc_block().
grow_direct(S, inum, i) ==
    Let(alloc_block(S), LAMBDA A : [A.st EXCEPT !.inodes[inum].pointers[i] = A.ret])

\* if (node->block == 0) node->block = alloc_block();
grow_block(S, inum) ==
    IF S.inodes[inum].block # 0 THEN S
    ELSE Let(alloc_block(S), LAMBDA A : [A.st EXCEPT !.inodes[inum].block = A.ret])

\* current_pointer[i-2] = alloc_block();
grow_slot(S, inum, i) ==
    Let(alloc_block(S), LAMBDA A :
        Poke(A.st, blocks_get_block(S.inodes[inum].block) + (i - 2), A.ret))

grow_indirect(S, inum, i) == grow_slot(grow_block(S, inum), inum, i)

RECURSIVE grow_loop(_, _, _, _)
grow_loop(S, inum, i, size_needed) ==
    IF ~Ok(S) \/ i > size_needed THEN S
    ELSE IF i >= 2 THEN grow_loop(grow_indirect(S, inum, i), inum, i + 1, size_needed)
    ELSE grow_loop(grow_direct(S, inum, i), inum, i + 1, size_needed)

set_size(S, inum, size) == IF ~Ok(S) THEN S ELSE [S EXCEPT !.inodes[inum].size = size]

grow_inode(S, inum, size) ==
    set_size(grow_loop(S, inum, (S.inodes[inum].size \div BLOCK_SIZE) + 1,
                       size \div BLOCK_SIZE),
             inum, size)

\* if (i == 2) { free_block(node->block); node->block = 0; }
shrink_block(S, inum, i) ==
    IF i # 2 \/ ~Ok(S) THEN S
    ELSE [free_block(S, S.inodes[inum].block) EXCEPT !.inodes[inum].block = 0]

\* shrink_inode's loop body for an indirect extent: the slot is read through
\* node->block whatever node->block holds, and freed.
shrink_indirect(S, inum, i) ==
    Let(blocks_get_block(S.inodes[inum].block) + (i - 2), LAMBDA a :
        shrink_block(free_block(Touch(S, a), Peek(S, a)), inum, i))

\* free_block(node->pointers[i]); node->pointers[i] = 0;
shrink_direct(S, inum, i) ==
    IF ~Ok(S) THEN S
    ELSE [free_block(S, S.inodes[inum].pointers[i]) EXCEPT !.inodes[inum].pointers[i] = 0]

RECURSIVE shrink_loop(_, _, _, _)
shrink_loop(S, inum, i, size_needed) ==
    IF ~Ok(S) \/ i < size_needed THEN S
    ELSE IF i >= 2 THEN shrink_loop(shrink_indirect(S, inum, i), inum, i - 1, size_needed)
    ELSE shrink_loop(shrink_direct(S, inum, i), inum, i - 1, size_needed)

shrink_inode(S, inum, size) ==
    set_size(shrink_loop(S, inum, (S.inodes[inum].size \div BLOCK_SIZE) + 1,
                         size \div BLOCK_SIZE),
             inum, size)

\* free_block(inode->pointers[0]); bitmap_put(inode bitmap, inum, 0);
free_inode_tail(S, inum) ==
    IF ~Ok(S) THEN S
    ELSE [free_block(S, S.inodes[inum].pointers[0]) EXCEPT !.ibm = @ \ {inum}]

\* free_inode: shrink to 0, free pointers[0], clear the inode's bit.
free_inode(S, inum) == free_inode_tail(shrink_inode(S, inum, 0), inum)

\* inode_get_bnum(node, file_bnum): the block holding byte file_bnum.
inode_get_bnum(S, inum, file_bnum) ==
    Let(file_bnum \div BLOCK_SIZE, LAMBDA curr_pointer :
        IF curr_pointer >= 2
        THEN Let(blocks_get_block(S.inodes[inum].block) + (curr_pointer - 2), LAMBDA a :
                 [st |-> Touch(S, a), ret |-> Peek(S, a)])
        ELSE [st |-> S, ret |-> S.inodes[inum].pointers[curr_pointer]])

\* ------------------------------------------------------------------ directory layer
\* dirent_t {name, inum, input_allocation} (directory.h, not in src/) packed in
\* one cell: bit 0 is input_allocation, then inum (INUM_RADIX - 1 reads as -1,
\* as the all-ones int does), then the name; the zero cell is {"", 0, 0}.
INUM_RADIX == BLOCK_COUNT + 1

Dirent(name, inum, alloc) == alloc + 2 * ((inum % INUM_RADIX) + INUM_RADIX * name)

DirentName(v) == v \div (2 * INUM_RADIX)

DirentInum(v) ==
    Let((v \div 2) % INUM_RADIX, LAMBDA f : IF f = INUM_RADIX - 1 THEN -1 ELSE f)

DirentAlloc(v) == v % 2

\* directory_lookup's loop from entry i on: the first entry with this name and
\* input_allocation == 1, among NUM_ENTRIES entries whatever the directory's size.
RECURSIVE lookup_loop(_, _, _, _)
lookup_loop(S, dir_entries, name, i) ==
    IF i >= NUM_ENTRIES THEN [st |-> S, ret |-> -1]
    ELSE IF ~Ok(Touch(S, dir_entries + i)) THEN [st |-> Touch(S, dir_entries + i), ret |-> -1]
    ELSE Let(Peek(S, dir_entries + i), LAMBDA v :
             IF DirentName(v) = name /\ DirentAlloc(v) = 1
             THEN [st |-> S, ret |-> DirentInum(v)]
             ELSE lookup_loop(S, dir_entries, name, i + 1))

directory_lookup(S, di, name) ==
    IF name = 0 THEN [st |-> S, ret |-> 0]
    ELSE IF ~Ok(get_inode(S, di)) THEN [st |-> get_inode(S, di), ret |-> -1]
    ELSE lookup_loop(S, blocks_get_block(S.inodes[di].pointers[0]), name, 0)

\* path_lookup: a path is the sequence of its component names after the leading
\* empty one (<<>> is "/"); the walk starts at inode 0.
RECURSIVE path_walk(_, _, _)
path_walk(S, inum, comps) ==
    IF comps = <<>> \/ ~Ok(S) THEN [st |-> S, ret |-> inum]
    ELSE Let(directory_lookup(S, inum, Head(comps)), LAMBDA L :
             IF L.ret = -1 THEN L ELSE path_walk(L.st, L.ret, Tail(comps)))

path_lookup(S, path) == path_walk(S, 0, path)

\* directory_put's reuse loop, from entry i (the loop starts at 1): done says
\* whether the function has returned from inside the loop.
RECURSIVE put_loop(_, _, _, _, _)
put_loop(S, directory_entries, entries, mock_dir, i) ==
    IF i >= entries THEN [st |-> S, done |-> FALSE]
    ELSE IF ~Ok(Touch(S, directory_entries + i))
        THEN [st |-> Touch(S, directory_entries + i), done |-> TRUE]
    ELSE IF DirentAlloc(Peek(S, directory_entries + i)) = 0
        THEN [st |-> Poke(S, directory_entries + i, mock_dir), done |-> TRUE]
    ELSE put_loop(S, directory_entries, entries, mock_dir, i + 1)

\* directory_entries[entries] = mock_dir; di->size += sizeof(dirent_t);
put_append(S, di, a, mock_dir) ==
    Let(Poke(S, a, mock_dir), LAMBDA W :
        IF ~Ok(W) THEN W ELSE [W EXCEPT !.inodes[di].size = @ + DIRENT_SIZE])

directory_put(S, di, name, inum) ==
    IF ~Ok(get_inode(S, di)) THEN get_inode(S, di)
    ELSE Let(put_loop(S, blocks_get_block(S.inodes[di].pointers[0]),
                      S.inodes[di].size \div DIRENT_SIZE, Dirent(name, inum, 1), 1),
             LAMBDA R :
                 IF R.done THEN R.st
                 ELSE put_append(R.st, di,
                                 blocks_get_block(S.inodes[di].pointers[0])
                                     + (S.inodes[di].size \div DIRENT_SIZE),
                                 Dirent(name, inum, 1)))

\* curr_inode->refs--; if (curr_inode->refs <= 0) free_inode(inum);
drop_ref(S, inum) ==
    IF ~Ok(get_inode(S, inum)) THEN get_inode(S, inum)
    ELSE IF S.inodes[inum].refs - 1 <= 0
        THEN free_inode([S EXCEPT !.inodes[inum].refs = @ - 1], inum)
    ELSE [S EXCEPT !.inodes[inum].refs = @ - 1]

\* directory_entries[i].input_allocation = 0;
clear_entry(S, a) == Poke(S, a, Peek(S, a) - DirentAlloc(Peek(S, a)))

\* directory_delete's loop without the test of input_allocation.
RECURSIVE delete_loop_any(_, _, _, _, _)
delete_loop_any(S, directory_entries, entries, name, i) ==
    IF i >= entries THEN [st |-> S, ret |-> -ENOENT]
    ELSE IF ~Ok(Touch(S, directory_entries + i))
        THEN [st |-> Touch(S, directory_entries + i), ret |-> 0]
    ELSE Let(Peek(S, directory_entries + i), LAMBDA v :
             IF DirentName(v) = name
             THEN [st |-> clear_entry(drop_ref(S, DirentInum(v)), directory_entries + i),
                   ret |-> 0]
             ELSE delete_loop_any(S, directory_entries, entries, name, i + 1))

\* directory_delete's loop from entry i, over size / sizeof(dirent_t) entries.
RECURSIVE delete_loop(_, _, _, _, _)
delete_loop(S, directory_entries, entries, name, i) ==
    IF i >= entries THEN [st |-> S, ret |-> -ENOENT]
    ELSE IF ~Ok(Touch(S, directory_entries + i))
        THEN [st |-> Touch(S, directory_entries + i), ret |-> 0]
    ELSE Let(Peek(S, directory_entries + i), LAMBDA v :
             IF DirentName(v) = name /\ DirentAlloc(v) # 0
             THEN [st |-> clear_entry(drop_ref(S, DirentInum(v)), directory_entries + i),
                   ret |-> 0]
             ELSE delete_loop(S, directory_entries, entries, name, i + 1))

directory_delete(S, di, name) ==
    IF ~Ok(get_inode(S, di)) THEN [st |-> get_inode(S, di), ret |-> 0]
    ELSE delete_loop(S, blocks_get_block(S.inodes[di].pointers[0]),
                     S.inodes[di].size \div DIRENT_SIZE, name, 0)

\* ------------------------------------------------------------------ operation layer
\* split_path: every component but the last is the parent path, the last one
\* the child name; for "/" both are empty.
split_parent(path) == IF path = <<>> THEN <<>> ELSE SubSeq(path, 1, Len(path) - 1)

split_child(path) == IF path = <<>> THEN 0 ELSE path[Len(path)]

\* What an operation hands back: the image after it, its return value, and
\* what it wrote to the caller's buffer.
Result(S, ret, out) == [st |-> S, ret |-> ret, out |-> out]

storage_stat(S, path) ==
    Let(path_lookup(S, path), LAMBDA L :
        IF ~Ok(L.st) \/ L.ret <= 0 THEN Result(L.st, -1, <<>>)
        ELSE Result(L.st, 0, <<L.st.inodes[L.ret].refs, L.st.inodes[L.ret].mode,
                                L.st.inodes[L.ret].size>>))

storage_truncate(S, path, size) ==
    Let(path_lookup(S, path), LAMBDA L :
        IF ~Ok(L.st) \/ L.ret <= 0 THEN Result(L.st, -1, <<>>)
        ELSE IF size > L.st.inodes[L.ret].size
            THEN Result(grow_inode(L.st, L.ret, size), 0, <<>>)
        ELSE Result(shrink_inode(L.st, L.ret, size), 0, <<>>))

\* memcpy of n cells out of the image, from cell a on.
RECURSIVE copy_out(_, _, _)
copy_out(S, a, n) ==
    IF n <= 0 \/ ~Ok(S) THEN [st |-> S, buf |-> <<>>]
    ELSE Let(copy_out(Touch(S, a), a + 1, n - 1), LAMBDA R :
             [st |-> R.st, buf |-> <<Peek(S, a)>> \o R.buf])

\* memcpy of buf into the image, from cell a on.
RECURSIVE copy_in(_, _, _)
copy_in(S, a, buf) ==
    IF buf = <<>> \/ ~Ok(S) THEN S
    ELSE copy_in(Poke(S, a, Head(buf)), a + 1, Tail(buf))

\* storage_read's loop: the block is chosen by offset + bytesRead, the place in
\* the block and the chunk length by offset alone.
RECURSIVE read_loop(_, _, _, _, _)
read_loop(S, inum, offset, remainingSize, bytesRead) ==
    IF remainingSize <= 0 \/ ~Ok(S) THEN Result(S, bytesRead, <<>>)
    ELSE Let(inode_get_bnum(S, inum, offset + bytesRead), LAMBDA B :
         Let(Min(remainingSize, BLOCK_SIZE - (offset % BLOCK_SIZE)), LAMBDA readSize :
         Let(copy_out(B.st, blocks_get_block(B.ret) + (offset % BLOCK_SIZE), readSize),
             LAMBDA C :
         Let(read_loop(C.st, inum, offset, remainingSize - readSize, bytesRead + readSize),
             LAMBDA R : Result(R.st, R.ret, C.buf \o R.out)))))

storage_read(S, path, size, offset) ==
    Let(path_lookup(S, path), LAMBDA L :
        IF ~Ok(L.st) \/ L.ret <= 0 THEN Result(L.st, -1, <<>>)
        ELSE IF offset >= L.st.inodes[L.ret].size THEN Result(L.st, 0, <<>>)
        ELSE read_loop(L.st, L.ret, offset, size, 0))

RECURSIVE write_loop(_, _, _, _, _)
write_loop(S, inum, offset, buf, bytesWritten) ==
    IF buf = <<>> \/ ~Ok(S) THEN Result(S, bytesWritten, <<>>)
    ELSE Let(inode_get_bnum(S, inum, offset + bytesWritten), LAMBDA B :
         Let(Min(Len(buf), BLOCK_SIZE - (offset % BLOCK_SIZE)), LAMBDA writeSize :
             write_loop(copy_in(B.st, blocks_get_block(B.ret) + (offset % BLOCK_SIZE),
                                SubSeq(buf, 1, writeSize)),
                        inum, offset, SubSeq(buf, writeSize + 1, Len(buf)),
                        bytesWritten + writeSize)))

storage_write(S, path, buf, offset) ==
    Let(path_lookup(S, path), LAMBDA L :
        IF ~Ok(L.st) \/ L.ret <= 0 THEN Result(L.st, -1, <<>>)
        ELSE IF offset + Len(buf) > L.st.inodes[L.ret].size
            THEN write_loop(storage_truncate(L.st, path, offset + Len(buf)).st,
                            L.ret, offset, buf, 0)
        ELSE write_loop(L.st, L.ret, offset, buf, 0))

\* storage_mknod after both lookups: alloc_inode, the child's fields, directory_put.
mknod_child(S, parentInodeNum, childName, mode) ==
    Let(alloc_inode(S), LAMBDA A :
        IF ~Ok(get_inode(A.st, A.ret)) THEN get_inode(A.st, A.ret)
        ELSE directory_put([A.st EXCEPT !.inodes[A.ret].refs = 1,
                                        !.inodes[A.ret].mode = mode,
                                        !.inodes[A.ret].size = 0],
                           parentInodeNum, childName, A.ret))

\* storage_mknod with the inode allocated before the parent is looked up.
storage_mknod_early(S, path, mode) ==
    Let(path_lookup(S, path), LAMBDA L :
        IF ~Ok(L.st) THEN Result(L.st, 0, <<>>)
        ELSE IF L.ret # -1 THEN Result(L.st, -EEXIST, <<>>)
        ELSE Let(alloc_inode(L.st), LAMBDA A :
             Let(path_lookup(A.st, split_parent(path)), LAMBDA P :
                 IF ~Ok(P.st) THEN Result(P.st, 0, <<>>)
                 ELSE IF P.ret < 0 THEN Result(P.st, -ENOENT, <<>>)
                 ELSE Result(directory_put([P.st EXCEPT !.inodes[A.ret].mode = mode],
                                           P.ret, split_child(path), A.ret),
                             0, <<>>))))

storage_mknod(S, path, mode) ==
    Let(path_lookup(S, path), LAMBDA L :
        IF ~Ok(L.st) THEN Result(L.st, 0, <<>>)
        ELSE IF L.ret # -1 THEN Result(L.st, -EEXIST, <<>>)
        ELSE Let(path_lookup(L.st, split_parent(path)), LAMBDA P :
                 IF ~Ok(P.st) THEN Result(P.st, 0, <<>>)
                 ELSE IF P.ret < 0 THEN Result(P.st, -ENOENT, <<>>)
                 ELSE Result(mknod_child(P.st, P.ret, split_child(path), mode), 0, <<>>)))

storage_unlink(S, path) ==
    Let(path_lookup(S, split_parent(path)), LAMBDA P :
    Let(directory_delete(get_inode(P.st, P.ret), P.ret, split_child(path)), LAMBDA R :
        Result(R.st, R.ret, <<>>)))

\* storage_link after `to` resolved: the parent of `from` is looked up and used
\* unchecked, the entry is put, and the target's refs is incremented.
link_put(S, from, toInodeNum) ==
    Let(path_lookup(S, split_parent(from)), LAMBDA P :
    Let(directory_put(get_inode(P.st, P.ret), P.ret, split_child(from), toInodeNum),
        LAMBDA S1 :
            IF ~Ok(S1) THEN S1 ELSE [S1 EXCEPT !.inodes[toInodeNum].refs = @ + 1]))

\* storage_link(from, to): `to` is the path that must exist, `from` the name added.
storage_link(S, from, to) ==
    Let(path_lookup(S, to), LAMBDA L :
        IF ~Ok(L.st) THEN Result(L.st, 0, <<>>)
        ELSE IF L.ret < 0 THEN Result(L.st, -1, <<>>)
        ELSE Result(link_put(L.st, from, L.ret), 0, <<>>))

\* storage_rename with the unlink attempted whatever storage_link returned.
storage_rename_always(S, from, to) ==
    Let(storage_link(S, to, from), LAMBDA K :
        IF ~Ok(K.st) THEN K ELSE storage_unlink(K.st, from))

storage_rename(S, from, to) ==
    Let(storage_link(S, to, from), LAMBDA K :
        IF ~Ok(K.st) \/ K.ret # 0 THEN K ELSE storage_unlink(K.st, from))

\* storage_init on a fresh image: blocks_init sets bit 0, three blocks are
\* allocated, and directory_init makes inode 0 the root with mode 040755.
ZeroInode == [refs |-> 0, mode |-> 0, size |-> 0, block |-> 0,
              pointers |-> [k \in 0..1 |-> 0]]

FreshImage ==
    [bbm |-> 0..RESERVED_BLOCKS, ibm |-> {}, inodes |-> [i \in Inums |-> ZeroInode],
     mem |-> [a \in DataStart..(MemCells - 1) |-> 0], fault |-> "none"]

storage_init ==
    Let(alloc_inode(FreshImage), LAMBDA A : [A.st EXCEPT !.inodes[A.ret].mode = DIR_MODE])

\* ------------------------------------------------------------------ the caller
\* One call of the operation surface per step; the caller waits for it to
\* return before the next one (single-threaded, call and return).
Op(op, path, path2, size, offset, buf, ret, out) ==
    [op |-> op, path |-> path, path2 |-> path2, size |-> size, offset |-> offset,
     buf |-> buf, ret |-> ret, out |-> out]

Modes == {FILE_MODE, DIR_MODE}

NoOp == Op("init", <<>>, <<>>, 0, 0, <<>>, 0, <<>>)

Paths1 == {<<n>> : n \in Names}
Paths2 == {<<1, m>> : m \in Names}
RootPath == <<>>

\* Buffers whose bytes all differ, so that a byte stored in the wrong place shows.
BufStarts == {4, 5}
Bufs == {[i \in 1..n |-> s + i] : n \in 1..MaxLen, s \in BufStarts}

Init ==
    /\ bbm = storage_init.bbm
    /\ ibm = storage_init.ibm
    /\ inodes = storage_init.inodes
    /\ mem = storage_init.mem
    /\ fault = "none"
    /\ last = NoOp
    /\ nops = 0

Ready == fault = "none" /\ nops < MaxOps

Becomes(S, rec) ==
    /\ bbm' = S.bbm
    /\ ibm' = S.ibm
    /\ inodes' = S.inodes
    /\ mem' = S.mem
    /\ fault' = S.fault
    /\ last' = rec
    /\ nops' = nops + 1

\* The operation has returned R: the image is R.st and the caller holds R.ret.
Done(R, op, path, path2, size, offset, buf) ==
    Becomes(R.st, Op(op, path, path2, size, offset, buf, R.ret, R.out))

Mknod(path, mode) ==
    Ready /\ Done(storage_mknod(St, path, mode), "mknod", path, <<>>, mode, 0, <<>>)

Stat(path) ==
    Ready /\ Done(storage_stat(St, path), "stat", path, <<>>, 0, 0, <<>>)

Truncate(path, size) ==
    Ready /\ Done(storage_truncate(St, path, size), "truncate", path, <<>>, size, 0, <<>>)

Read(path, size, offset) ==
    Ready /\ Done(storage_read(St, path, size, offset), "read", path, <<>>, size, offset, <<>>)

Write(path, buf, offset) ==
    Ready /\ Done(storage_write(St, path, buf, offset), "write", path, <<>>, Len(buf), offset, buf)

Unlink(path) ==
    Ready /\ Done(storage_unlink(St, path), "unlink", path, <<>>, 0, 0, <<>>)

Link(from, to) ==
    Ready /\ Done(storage_link(St, from, to), "link", from, to, 0, 0, <<>>)

Rename(from, to) ==
    Ready /\ Done(storage_rename(St, from, to), "rename", from, to, 0, 0, <<>>)

\* Files in the root directory: create, write and read at offset 0, truncate,
\* link, remove.
NextData ==
    \/ \E p \in Paths1 : Mknod(p, FILE_MODE)
    \/ \E p \in Paths1, b \in Bufs : Write(p, b, 0)
    \/ \E p \in Paths1, n \in 1..MaxLen : Read(p, n, 0)
    \/ \E p \in Paths1, n \in 0..MaxSize : Truncate(p, n)
    \/ \E p \in Paths1 : Unlink(p)
    \/ \E p \in Paths1, q \in Paths1 : Link(p, q)

SpecData == Init /\ [][NextData]_vars

\* Names: files and directories one and two levels deep, made, linked, renamed
\* and removed.
LinkPaths == Paths1 \cup Paths2

InLinks == nops < MaxLinkOps

NextLinks ==
    \/ \E p \in LinkPaths \cup {RootPath}, m \in Modes : InLinks /\ Mknod(p, m)
    \/ \E p \in LinkPaths, q \in LinkPaths : InLinks /\ Link(p, q)
    \/ \E p \in LinkPaths : InLinks /\ Unlink(p)
    \/ \E p \in LinkPaths, q \in LinkPaths : InLinks /\ Rename(p, q)
    \/ \E p \in LinkPaths \cup {RootPath} : InLinks /\ Stat(p)

SpecLinks == Init /\ [][NextLinks]_vars

\* Inode exhaustion: the image after storage_mknod has made six directories and
\* five files below the root, one inode each, so that every bit of the inode
\* bitmap is set.
FullDirs == << <<1>>, <<2>>, <<1, 1>>, <<1, 2>>, <<2, 1>>, <<2, 2>> >>
FullFiles == << <<1, 1, 1>>, <<1, 1, 2>>, <<1, 2, 1>>, <<1, 2, 2>>, <<2, 1, 1>> >>

RECURSIVE MknodAll(_, _, _)
MknodAll(S, paths, mode) ==
    IF paths = <<>> THEN S
    ELSE MknodAll(storage_mknod(S, Head(paths), mode).st, Tail(paths), mode)

FullImage == MknodAll(MknodAll(storage_init, FullDirs, DIR_MODE), FullFiles, FILE_MODE)

InitFull ==
    /\ bbm = FullImage.bbm
    /\ ibm = FullImage.ibm
    /\ inodes = FullImage.inodes
    /\ mem = FullImage.mem
    /\ fault = FullImage.fault
    /\ last = NoOp
    /\ nops = 0

FullLeaves == {FullFiles[i] : i \in 1..Len(FullFiles)}
FullNew == {<<2, 1, 2>>, <<2, 2, 1>>, <<2, 2, 2>>}

InFull == nops < MaxFullOps

NextFull ==
    \/ \E p \in FullNew \cup FullLeaves, m \in Modes : InFull /\ Mknod(p, m)
    \/ \E p \in FullLeaves : InFull /\ Unlink(p)
    \/ \E p \in FullLeaves, n \in 0..1 : InFull /\ Truncate(p, n)
    \/ \E p \in FullNew \cup FullLeaves : InFull /\ Stat(p)

SpecFull == InitFull /\ [][NextFull]_vars

\* Files in the root directory written and read at any offset, aligned to a
\* block or not.
Offsets == 0..MaxOffset

InOffsets == nops < MaxOffsetOps

NextOffsets ==
    \/ \E p \in Paths1 : InOffsets /\ Mknod(p, FILE_MODE)
    \/ \E p \in Paths1, b \in Bufs, o \in Offsets : InOffsets /\ Write(p, b, o)
    \/ \E p \in Paths1, n \in 1..2, o \in 0..(MaxOffset + MaxLen) : InOffsets /\ Read(p, n, o)

SpecOffsets == Init /\ [][NextOffsets]_vars

\* ------------------------------------------------------------------ claims
FreeBlocks(S) == {b \in 1..(BLOCK_COUNT - 1) : b \notin S.bbm}

Resolves(S, path) == path_lookup(S, path).ret > 0

\* Extents a write of n bytes at offset 0 may have grow allocate: one per extent
\* index up to n / BLOCK_SIZE, and the indirect block.
BlocksFor(n) == (n \div BLOCK_SIZE) + 2

\* C1: round trip. A write of B at offset 0 to a path that resolves, with blocks
\* available, returns len(B), and a read of len(B) at offset 0 then returns B.
C1_RoundTrip ==
    [][(/\ last'.op = "write"
        /\ Resolves(St, last'.path)
        /\ Cardinality(FreeBlocks(St)) >= BlocksFor(Len(last'.buf)))
       => (/\ fault' = "none"
           /\ last'.ret = Len(last'.buf)
           /\ storage_read(St', last'.path, Len(last'.buf), 0)
                  = Result(St', Len(last'.buf), last'.buf))]_vars

\* C2: growth/shrink symmetry. After truncate(path, N), for every M < N,
\* truncate(path, M) then truncate(path, N) leaves the size N and the bytes at
\* [0, M) as they were before the shrink.
C2_GrowShrinkSymmetry ==
    \A M \in 1..MaxSize :
        (/\ last.op = "truncate" /\ last.ret = 0 /\ fault = "none"
         /\ M < last.size
         /\ Cardinality(FreeBlocks(St)) >= BlocksFor(last.size))
        => LET N == last.size
               before == storage_read(St, last.path, M, 0)
               shrunk == storage_truncate(St, last.path, M)
               regrown == storage_truncate(shrunk.st, last.path, N)
               after == storage_read(regrown.st, last.path, M, 0)
           IN  /\ before.st.fault = "none"
               => (/\ after.st.fault = "none"
                   /\ shrunk.ret = 0 /\ regrown.ret = 0
                   /\ storage_stat(regrown.st, last.path).out[3] = N
                   /\ after.out = before.out)

\* The block an inode's extent map gives for extent index k, as inode_get_bnum
\* reads it.
ExtentBlock(S, inum, k) == inode_get_bnum(S, inum, k * BLOCK_SIZE).ret

\* The extent indices that cover bytes [0, size).
Extents(S, inum) == {k \in 0..(S.inodes[inum].size \div BLOCK_SIZE) :
                        k * BLOCK_SIZE < S.inodes[inum].size}

\* C3: no cross-inode corruption. Every extent covering [0, size) of a live
\* inode maps to a block whose bit is set, that is not block 0, and that no
\* other live inode maps.
C3_NoCrossInodeCorruption ==
    fault = "none" =>
    \A i \in ibm : \A k \in Extents(St, i) :
        LET b == ExtentBlock(St, i, k) IN
        /\ b \in bbm
        /\ b # 0
        /\ \A j \in ibm \ {i} : \A m \in Extents(St, j) : ExtentBlock(St, j, m) # b

\* What stat reports as link_count, or -1 when stat fails.
LinkCount(S, path) ==
    Let(storage_stat(S, path), LAMBDA R : IF R.ret = 0 THEN R.out[1] ELSE -1)

Inum(S, path) == path_lookup(S, path).ret

\* path names a regular file that has exactly one name so far.
SingleFile(S, path) ==
    /\ Inum(S, path) > 0
    /\ S.inodes[Inum(S, path)].mode = FILE_MODE
    /\ S.inodes[Inum(S, path)].refs = 1

\* The blocks an inode's record and indirect block name, whatever its size.
OwnedBlocks(S, inum) ==
    {S.inodes[inum].pointers[0], S.inodes[inum].pointers[1], S.inodes[inum].block}
        \cup (IF S.inodes[inum].block > RESERVED_BLOCKS /\ S.inodes[inum].block < BLOCK_COUNT
              THEN {Peek(S, blocks_get_block(S.inodes[inum].block) + k) : k \in 0..(BLOCK_SIZE - 1)}
              ELSE {})

\* The step is a link that returned SUCCESS and gave the single-named file at
\* `to` a name that did not resolve before.
LinkedSecondName ==
    /\ last'.op = "link" /\ last'.ret = 0 /\ fault' = "none"
    /\ SingleFile(St, last'.path2)
    /\ Inum(St, last'.path) = -1

\* The step is an unlink that returned SUCCESS on one of two names of a file
\* with link_count 2; q is the other name.
UnlinkedOneOfTwo(q) ==
    /\ last'.op = "unlink" /\ last'.ret = 0 /\ fault' = "none"
    /\ q # last'.path
    /\ Inum(St, q) > 0
    /\ Inum(St, q) = Inum(St, last'.path)
    /\ St.inodes[Inum(St, q)].mode = FILE_MODE
    /\ LinkCount(St, q) = 2

\* C4 (link half): after a successful link gives an existing file a second
\* name, stat of both names reports link_count 2 and both resolve to the same
\* inode.
C4_LinkCounts ==
    [][LinkedSecondName
       => (/\ LinkCount(St', last'.path) = 2
           /\ LinkCount(St', last'.path2) = 2
           /\ Inum(St', last'.path) = Inum(St, last'.path2)
           /\ Inum(St', last'.path2) = Inum(St, last'.path2))]_vars

\* C4 (unlink half): after unlink of one of the two names, stat of the other
\* reports link_count 1, the inode's bit is still set, none of its blocks were
\* freed, and its content reads as before.
C4_UnlinkKeeps ==
    [][\A q \in Paths1 : UnlinkedOneOfTwo(q)
       => (/\ LinkCount(St', q) = 1
           /\ Inum(St', q) = Inum(St, q)
           /\ Inum(St, q) \in ibm'
           /\ (OwnedBlocks(St, Inum(St, q)) \cap bbm) \subseteq bbm'
           /\ \A n \in 1..MaxLen :
                  storage_read(St', q, n, 0).out = storage_read(St, q, n, 0).out)]_vars

\* The step is an unlink of a path whose inode has refs 1: the last entry
\* naming it.
UnlinksLast ==
    /\ last'.op = "unlink"
    /\ Inum(St, last'.path) > 0
    /\ Inum(St, last'.path) \in ibm
    /\ St.inodes[Inum(St, last'.path)].refs = 1

\* C5: reclamation on last unlink. The unlink returns, the inode's bit is
\* cleared, and every block the inode owned is free, for a file of any size.
\* (A run whose free_block lands in the inode table is not followed.)
C5_Reclaim ==
    [][(UnlinksLast /\ fault' # "table")
       => (/\ fault' = "none"
           /\ last'.ret = 0
           /\ Inum(St, last'.path) \notin ibm'
           /\ \A b \in OwnedBlocks(St, Inum(St, last'.path)) :
                  b \in 1..(BLOCK_COUNT - 1) => b \notin bbm')]_vars

PathA == <<1>>
PathB == <<2>>

\* C6: the link scenario. With "/a" a file just made and "/b" not existing,
\* link("/a", "/b") returns SUCCESS, stat("/b") reports link_count 2, and after
\* unlink("/a") a read of "/b" does not fail.
C6_LinkScenario ==
    [][(/\ last'.op = "link" /\ last'.path = PathA /\ last'.path2 = PathB
        /\ SingleFile(St, PathA)
        /\ Inum(St, PathB) = -1)
       => (/\ last'.ret = 0
           /\ LinkCount(St', PathB) = 2
           /\ storage_read(storage_unlink(St', PathA).st, PathB, 1, 0).ret >= 0)]_vars

\* The directory at inode di holds an allocated entry with this name among the
\* size / sizeof(dirent_t) entries that directory_delete scans.
HoldsEntry(S, di, name) ==
    \E i \in 0..((S.inodes[di].size \div DIRENT_SIZE) - 1) :
        /\ DirentName(Peek(S, blocks_get_block(S.inodes[di].pointers[0]) + i)) = name
        /\ DirentAlloc(Peek(S, blocks_get_block(S.inodes[di].pointers[0]) + i)) = 1

\* The step is an unlink of a path whose parent resolves and holds no allocated
\* entry with the path's last name.
UnlinksAbsent ==
    /\ last'.op = "unlink"
    /\ Inum(St, split_parent(last'.path)) >= 0
    /\ ~HoldsEntry(St, Inum(St, split_parent(last'.path)), split_child(last'.path))

\* C7: idempotent delete. unlink of a name its resolving parent does not hold
\* returns NOT_FOUND and changes nothing, and so does the same unlink again.
C7_IdempotentDelete ==
    [][UnlinksAbsent
       => (/\ last'.ret = -ENOENT
           /\ St' = St
           /\ storage_unlink(St', last'.path) = Result(St, -ENOENT, <<>>))]_vars

\* The unlink found nothing in a subdirectory whose entry with that name was
\* removed before: the slot is still there, its flag cleared.
C7_Witness ==
    /\ last.op = "unlink" /\ last.ret = -ENOENT /\ fault = "none"
    /\ Len(last.path) = 2
    /\ Inum(St, split_parent(last.path)) > 0
    /\ inodes[Inum(St, split_parent(last.path))].mode = DIR_MODE
    /\ \E i \in 0..((inodes[Inum(St, split_parent(last.path))].size \div DIRENT_SIZE) - 1) :
           LET v == Peek(St, blocks_get_block(
                             inodes[Inum(St, split_parent(last.path))].pointers[0]) + i)
           IN  DirentName(v) = split_child(last.path) /\ DirentAlloc(v) = 0

\* The step is an unlink that returned SUCCESS on a path whose inode, a regular
\* file in a directory, had link_count 1.
UnlinkedSingle ==
    /\ last'.op = "unlink" /\ last'.ret = 0 /\ fault' = "none"
    /\ Inum(St, split_parent(last'.path)) >= 0
    /\ St.inodes[Inum(St, split_parent(last'.path))].mode = DIR_MODE
    /\ Inum(St, split_parent(last'.path2)) # Inum(St, last'.path)
    /\ Inum(St, last'.path) > 0
    /\ St.inodes[Inum(St, last'.path)].mode = FILE_MODE
    /\ LinkCount(St, last'.path) = 1

\* C8: after unlink(p) returns SUCCESS for a path whose inode had link_count 1,
\* p does not resolve: stat, read, write and truncate of p fail, and mknod(p)
\* succeeds.
C8_UnlinkedGone ==
    [][UnlinkedSingle
       => (/\ Inum(St', last'.path) = -1
           /\ storage_stat(St', last'.path).ret = -1
           /\ storage_read(St', last'.path, 1, 0).ret = -1
           /\ storage_write(St', last'.path, <<5>>, 0).ret = -1
           /\ storage_truncate(St', last'.path, 1).ret = -1
           /\ storage_mknod(St', last'.path, FILE_MODE).ret = 0)]_vars

\* C9: mknod error outcomes. mknod of a path that resolves (the root included)
\* returns ALREADY_EXISTS, mknod of a path whose parent does not resolve returns
\* PARENT_NOT_FOUND, and in both cases nothing changes.
C9_MknodErrors ==
    [][last'.op = "mknod"
       => (/\ Inum(St, last'.path) # -1
              => (last'.ret = -EEXIST /\ St' = St)
           /\ Inum(St, split_parent(last'.path)) < 0
              => (last'.ret = -ENOENT /\ St' = St)
           /\ last'.ret # 0 => St' = St)]_vars

\* mknod below a name that is not there returned PARENT_NOT_FOUND, in an image
\* that holds other files.
C9_Witness ==
    /\ last.op = "mknod" /\ last.ret = -ENOENT /\ fault = "none"
    /\ Len(last.path) = 2
    /\ Cardinality(ibm) >= 3
    /\ Cardinality(bbm) >= RESERVED_BLOCKS + 4

\* The names of the allocated entries among a directory's first
\* size / sizeof(dirent_t) entries, by index.
AllocatedAt(S, di, i) ==
    DirentAlloc(Peek(S, blocks_get_block(S.inodes[di].pointers[0]) + i)) = 1

NameAt(S, di, i) == DirentName(Peek(S, blocks_get_block(S.inodes[di].pointers[0]) + i))

\* C10: directory name uniqueness. No live directory holds two allocated
\* entries with the same name.
C10_NameUniqueness ==
    \A di \in ibm :
        inodes[di].mode = DIR_MODE
        => \A i, j \in 0..((inodes[di].size \div DIRENT_SIZE) - 1) :
               (i # j /\ AllocatedAt(St, di, i) /\ AllocatedAt(St, di, j))
               => NameAt(St, di, i) # NameAt(St, di, j)

\* The cell of entry i of the directory at inode di.
EntryAt(S, di, i) == Peek(S, blocks_get_block(S.inodes[di].pointers[0]) + i)

\* The indices of the entries directory_delete scans in the directory at di.
EntryIndices(S, di) == 0..((S.inodes[di].size \div DIRENT_SIZE) - 1)

\* The inodes that allocated entries of the inodes in ds name.
Named(S, ds) ==
    UNION {{DirentInum(EntryAt(S, di, i)) :
               i \in {k \in EntryIndices(S, di) : DirentAlloc(EntryAt(S, di, k)) = 1}} :
           di \in ds}
        \cap Inums

\* The inodes reachable from the root by following allocated entries, whatever
\* the mode of the inode that holds them (path_lookup does not look at it).
RECURSIVE ReachFrom(_, _)
ReachFrom(S, ds) ==
    IF Named(S, ds) \subseteq ds THEN ds ELSE ReachFrom(S, ds \cup Named(S, ds))

Reachable(S) == ReachFrom(S, {0})

\* The number of allocated entries, in inodes reachable from the root, that
\* name inum.
EntryCount(S, inum) ==
    Cardinality({<<di, i>> \in Reachable(S) \X (0..(MemCells - 1)) :
                    /\ i \in EntryIndices(S, di)
                    /\ DirentAlloc(EntryAt(S, di, i)) = 1
                    /\ DirentInum(EntryAt(S, di, i)) = inum})

\* C11: reference-count invariant. Every non-root inode whose bit is set has
\* refs >= 1 and refs equal to the number of allocated entries, in directories
\* reachable from the root, that name it.
C11_RefCount ==
    fault = "none" =>
    \A i \in ibm \ {0} :
        /\ inodes[i].refs >= 1
        /\ inodes[i].refs = EntryCount(St, i)

\* The step is a rename that returned SUCCESS, between two different paths,
\* with the parent of `to` resolving to a directory that is not `from` itself.
Renamed ==
    /\ last'.op = "rename" /\ last'.ret = 0 /\ fault' = "none"
    /\ last'.path # last'.path2
    /\ Inum(St, last'.path) > 0
    /\ Inum(St, split_parent(last'.path2)) >= 0
    /\ St.inodes[Inum(St, split_parent(last'.path2))].mode = DIR_MODE
    /\ St.inodes[Inum(St, split_parent(last'.path))].mode = DIR_MODE
    /\ Inum(St, split_parent(last'.path2)) # Inum(St, last'.path)

\* C12: rename result. After rename(from, to) returns SUCCESS, to resolves to
\* the inode from resolved to, from no longer resolves, and that inode's refs
\* is what it was.
C12_RenameResult ==
    [][Renamed
       => (/\ Inum(St', last'.path2) = Inum(St, last'.path)
           /\ Inum(St', last'.path) = -1
           /\ inodes'[Inum(St, last'.path)].refs = inodes[Inum(St, last'.path)].refs)]_vars

\* C13: rename failure. rename(from, to) where from does not resolve returns
\* NOT_FOUND (storage_link's -1, not the unlink's result) and changes nothing.
C13_RenameFailure ==
    [][(last'.op = "rename" /\ Inum(St, last'.path) = -1)
       => (last'.ret = -1 /\ St' = St)]_vars

\* A rename of a name that is not there failed, with the path `to` naming a
\* file that is still there.
C13_Witness ==
    /\ last.op = "rename" /\ last.ret = -1 /\ fault = "none"
    /\ Inum(St, last.path) = -1
    /\ Inum(St, last.path2) > 0
    /\ Len(last.path2) = 2

FullBitmap(S) == S.ibm = Inums

\* C14: inode exhaustion. When the inode bitmap has no free bit, a mknod of a
\* path that does not exist under a parent that does returns a failure
\* indicator and leaves the image as it was: no inode record written, no block
\* allocated, no directory entry inserted.
C14_InodeExhaustion ==
    [][(/\ last'.op = "mknod"
        /\ fault = "none"
        /\ FullBitmap(St)
        /\ Inum(St, last'.path) = -1
        /\ Inum(St, split_parent(last'.path)) >= 0)
       => (/\ last'.ret # 0
           /\ St' = St)]_vars

\* The size a truncate or write step asks grow for.
AskedSize(rec) == IF rec.op = "write" THEN rec.offset + Len(rec.buf) ELSE rec.size

\* grow's loop runs once per extent index from size/BLOCK_SIZE + 1 up to
\* asked/BLOCK_SIZE.
GrowSteps(S, inum, asked) ==
    Cardinality({i \in 0..MemCells : /\ i >= (S.inodes[inum].size \div BLOCK_SIZE) + 1
                                     /\ i <= asked \div BLOCK_SIZE})

\* The blocks grow allocates: one per extent index, and the indirect block when
\* an index of 2 or more is reached and the inode has none.
GrowAllocs(S, inum, asked) ==
    GrowSteps(S, inum, asked)
        + (IF /\ GrowSteps(S, inum, asked) > 0
              /\ asked \div BLOCK_SIZE >= 2
              /\ S.inodes[inum].block = 0
           THEN 1 ELSE 0)

\* C15: block exhaustion. A truncate or write that has grow allocate more
\* blocks than there are free ones reports a failure to its caller, and
\* no failed allocation's result is stored in the inode's extent map.
C15_BlockExhaustion ==
    [][(/\ last'.op \in {"truncate", "write"}
        /\ fault = "none"
        /\ Inum(St, last'.path) > 0
        /\ AskedSize(last') > inodes[Inum(St, last'.path)].size
        /\ -1 \notin OwnedBlocks(St, Inum(St, last'.path))
        /\ GrowAllocs(St, Inum(St, last'.path), AskedSize(last')) > Cardinality(FreeBlocks(St)))
       => (/\ last'.ret < 0
           /\ fault' = "none" => -1 \notin OwnedBlocks(St', Inum(St, last'.path)))]_vars

\* The indices below size/entry_size of directory di whose entry is allocated
\* and carries the name.
SlotsNamed(S, di, name) ==
    {i \in EntryIndices(S, di) : /\ DirentAlloc(EntryAt(S, di, i)) = 1
                                 /\ DirentName(EntryAt(S, di, i)) = name}

Directories(S) == {di \in Reachable(S) : S.inodes[di].mode = DIR_MODE}

\* The step inserts or removes names other than `name`, all of them in the
\* directory di.
TouchesOthers(S, rec, di, name) ==
    /\ rec.op \in {"mknod", "unlink", "link", "rename"}
    /\ rec.path # <<>>
    /\ split_child(rec.path) # name
    /\ Inum(S, split_parent(rec.path)) = di
    /\ rec.op \in {"link", "rename"}
           => (/\ rec.path2 # <<>>
               /\ split_child(rec.path2) # name
               /\ Inum(S, split_parent(rec.path2)) = di)

\* C16: lookup stability. For a name with one allocated entry in a directory,
\* lookup returns that entry's inode number, and an insert or remove of another
\* name in the same directory leaves that result as it was.
C16_LookupStability ==
    [][\A di \in Directories(St) : \A name \in Names : \A i \in SlotsNamed(St, di, name) :
        (/\ fault = "none"
         /\ SlotsNamed(St, di, name) = {i}
         /\ TouchesOthers(St, last', di, name))
        => (/\ directory_lookup(St, di, name).ret = DirentInum(EntryAt(St, di, i))
            /\ fault' = "none"
                 => directory_lookup(St', di, name).ret = DirentInum(EntryAt(St, di, i)))]_vars

\* C17: lookup scan bound. While no directory holds more entries than its
\* block has room for, in every directory a lookup of a non-empty name
\* that returns an inode number returns that of an allocated entry with the
\* name at an index below size/entry_size; in a directory of size 0 it
\* returns -1.
C17_LookupScanBound ==
    (/\ fault = "none"
     /\ \A d \in ibm : inodes[d].size \div DIRENT_SIZE <= NUM_ENTRIES) =>
    \A di \in Directories(St) : \A name \in Names :
        directory_lookup(St, di, name).ret # -1
        => \E i \in SlotsNamed(St, di, name) :
               directory_lookup(St, di, name).ret = DirentInum(EntryAt(St, di, i))

\* The indices below size/entry_size of directory di whose entry is not allocated.
FreeSlots(S, di) == {i \in EntryIndices(S, di) : DirentAlloc(EntryAt(S, di, i)) = 0}

\* The step is a mknod that returned SUCCESS: its directory_put inserted the
\* path's last component into the directory the parent path resolved to.
Inserted ==
    /\ last'.op = "mknod" /\ last'.ret = 0
    /\ fault = "none" /\ fault' = "none"
    /\ last'.path # <<>>
    /\ Inum(St, split_parent(last'.path)) >= 0

\* C18: insert slot choice. An insert writes the entry into the lowest-index
\* unallocated slot below size/entry_size, slot 0 included, and leaves the size
\* as it was; with no such slot it appends at index size/entry_size and the
\* size grows by one entry.
C18_InsertSlot ==
    [][Inserted =>
        LET di == Inum(St, split_parent(last'.path))
            free == FreeSlots(St, di)
            entries == inodes[di].size \div DIRENT_SIZE
            slot == IF free = {} THEN entries
                    ELSE CHOOSE i \in free : \A j \in free : i <= j
            e == Dirent(split_child(last'.path), alloc_inode_num(St), 1)
        IN  /\ Peek(St', blocks_get_block(inodes[di].pointers[0]) + slot) = e
            /\ inodes'[di].size = IF free = {} THEN inodes[di].size + DIRENT_SIZE
                                  ELSE inodes[di].size]_vars

\* C19: directory capacity. In every reachable state every directory's entry
\* count size/entry_size is at most the number of entries one block holds.
C19_DirectoryCapacity ==
    fault = "none" =>
    \A di \in Directories(St) :
        inodes[di].size \div DIRENT_SIZE <= BLOCK_SIZE \div DIRENT_SIZE

\* C20: write placement. After a write of buf at any offset to a path that
\* resolves, with blocks available, a read of one byte at offset + k returns
\* buf[k], for every k below the length of buf.
C20_WritePlacement ==
    [][(/\ last'.op = "write"
        /\ fault = "none"
        /\ Resolves(St, last'.path)
        /\ Cardinality(FreeBlocks(St)) >= BlocksFor(last'.offset + Len(last'.buf)))
       => (/\ fault' = "none"
           /\ \A k \in 1..Len(last'.buf) :
                  storage_read(St', last'.path, 1, last'.offset + k - 1)
                      = Result(St', 1, <<last'.buf[k]>>))]_vars

\* ceil(size / BLOCK_SIZE): the number of extents that cover bytes [0, size).
ExtentsFor(size) == (size + BLOCK_SIZE - 1) \div BLOCK_SIZE

\* The step is a truncate of a file to less than its size: shrink_inode runs
\* on the file's inode and returns.
Shrinks ==
    /\ last'.op = "truncate"
    /\ fault = "none" /\ fault' = "none"
    /\ Inum(St, last'.path) > 0
    /\ last'.size < inodes[Inum(St, last'.path)].size
    /\ -1 \notin OwnedBlocks(St, Inum(St, last'.path))

\* C21: shrink frees only owned blocks. Every block whose bit a shrink clears
\* was owned by the inode and is not block 0, and the extents below
\* ceil(new_size / BLOCK_SIZE) keep their blocks, still allocated.
C21_ShrinkFreesOwned ==
    [][Shrinks =>
        LET n == Inum(St, last'.path) IN
        /\ (bbm \ bbm') \subseteq (OwnedBlocks(St, n) \ {0})
        /\ \A k \in 0..(ExtentsFor(last'.size) - 1) :
               /\ ExtentBlock(St', n, k) = ExtentBlock(St, n, k)
               /\ ExtentBlock(St', n, k) \in bbm']_vars

\* The step is an unlink of a path whose parent does not resolve, or a link
\* whose `to` resolves and whose `from` has a parent that does not.
ParentUnresolved ==
    /\ fault = "none"
    /\ Inum(St, split_parent(last'.path)) = -1
    /\ \/ last'.op = "unlink"
       \/ last'.op = "link" /\ Inum(St, last'.path2) >= 0

\* C22: unresolved parent. An unlink whose parent directory does not resolve,
\* and a link whose target resolves while the new name's parent does not,
\* return NOT_FOUND, touch no inode record outside the table and leave the
\* image as it was.
C22_UnresolvedParent ==
    [][ParentUnresolved
       => (/\ last'.ret \in {-1, -ENOENT}
           /\ fault' = "none"
           /\ St' = St)]_vars

====
